---- MODULE Spec2Model ----
(***************************************************************************)
(* The file-acceptance state machine of the DragDropUpload component       *)
(* (src/components/file_upload.tsx): the React state (files, isDragOver,   *)
(* error), the `files` value captured by the memoised callbacks, the       *)
(* pending setTimeout callbacks, the object URLs created for previews and  *)
(* the calls made to the onFilesChange prop.                               *)
(*                                                                         *)
(* Strings of the program (file names, MIME types, accept rules) are       *)
(* sequences of one-character strings, so that startsWith, endsWith,       *)
(* includes, split and toLowerCase are computed as the code computes them. *)
(***************************************************************************)
EXTENDS Integers, Sequences, FiniteSets, TLC

\* ------------------------------------------------------------------ bounds
\* Longest FileList handed to processFiles by one drop or one picker change.
MaxBatch == 2
\* Largest value of the maxFiles prop the widget is mounted with.
MaxMaxFiles == 2
\* Most calls of URL.createObjectURL in one behaviour.
MaxUrls == 2
\* Most setTimeout callbacks pending at once.
MaxTimers == 2

\* --------------------------------------------------------- string helpers
\* String.prototype.startsWith
StartsWith(s, p) == Len(p) <= Len(s) /\ SubSeq(s, 1, Len(p)) = p

\* String.prototype.endsWith
EndsWith(s, p) == Len(p) <= Len(s) /\ SubSeq(s, Len(s) - Len(p) + 1, Len(s)) = p

\* String.prototype.includes, for a one-character needle
Includes(s, c) == \E i \in 1..Len(s) : s[i] = c

\* s.split(sep)[0]: the part of s before the first sep, all of s without one
SplitFirst(s, sep) ==
    IF Includes(s, sep)
    THEN SubSeq(s, 1, (CHOOSE i \in 1..Len(s) :
                          s[i] = sep /\ \A j \in 1..(i - 1) : s[j] # sep) - 1)
    ELSE s

\* The upper-case letters that occur in the modelled file names.
LowerOf(c) ==
    CASE c = "A" -> "a"
      [] c = "B" -> "b"
      [] c = "C" -> "c"
      [] c = "D" -> "d"
      [] c = "T" -> "t"
      [] c = "X" -> "x"
      [] OTHER   -> c

\* String.prototype.toLowerCase
ToLowerCase(s) == [i \in 1..Len(s) |-> LowerOf(s[i])]

\* Math.round(n / 1024 / 1024), n a non-negative integer: halves round up.
BytesPerMB == 1048576
RoundMB(n) == (2 * n + BytesPerMB) \div (2 * BytesPerMB)

\* ------------------------------------------------------------ the values
\* `null` of `error`, and of validateFile's result.
Null == [kind |-> "null"]

\* `undefined` of FileWithPreview.preview; an object URL is a number >= 1.
Undefined == 0

\* The error strings, kept as the template and the values interpolated.
TooLargeMsg(name, limit) ==
    [kind |-> "TooLarge", name |-> name, mb |-> RoundMB(limit)]
UnsupportedMsg(name) == [kind |-> "UnsupportedType", name |-> name]
MaximumMsg(n) == [kind |-> "Maximum", n |-> n]

\* The props the page mounts the widget with (they are also the defaults):
\* maxSize = 10 * 1024 * 1024,
\* acceptedTypes = ["image/*", "application/pdf", ".doc", ".docx", ".txt"]
PageProps ==
    [maxSize |-> 10485760,
     acceptedTypes |->
        << <<"i","m","a","g","e","/","*">>,
           <<"a","p","p","l","i","c","a","t","i","o","n","/","p","d","f">>,
           <<".","d","o","c">>,
           <<".","d","o","c","x">>,
           <<".","t","x","t">> >>]

\* The props of the scenario of two images and a PDF: maxSize = 1000,
\* acceptedTypes = ["image/*"] (with maxFiles = 2).
ScenarioProps ==
    [maxSize |-> 1000,
     acceptedTypes |-> << <<"i","m","a","g","e","/","*">> >>]

AllProps == {PageProps, ScenarioProps}

ImagePng == <<"i","m","a","g","e","/","p","n","g">>
ImagePrefix == <<"i","m","a","g","e","/">>

File(name, size, type) ==
    [name |-> name, size |-> size, type |-> type, preview |-> Undefined]

\* The File objects a drop or a picker change can carry under the props p.
\* For the page's props, m being maxSize: an image; a text file of exactly m
\* bytes, named in upper case and with no declared MIME type; an image of
\* m + 1 bytes; a video; a video of m + 1 bytes; a file whose MIME type
\* begins with "image" but not with "image/". For the scenario: the images
\* imgA, imgC and imgD and the PDF docB, of 500 bytes each.
CandidatesOf(p) ==
    IF p = ScenarioProps
    THEN { File(<<"i","m","g","A">>, 500, ImagePng),
           File(<<"d","o","c","B">>, 500,
                <<"a","p","p","l","i","c","a","t","i","o","n","/","p","d","f">>),
           File(<<"i","m","g","C">>, 500, ImagePng),
           File(<<"i","m","g","D">>, 500, ImagePng) }
    ELSE LET m == p.maxSize IN
    { File(<<"a",".","p","n","g">>, 500, ImagePng),
      File(<<"B",".","T","X","T">>, m, <<>>),
      File(<<"d",".","p","n","g">>, m + 1, ImagePng),
      File(<<"e",".","m","p","4">>, 500, <<"v","i","d","e","o","/","m","p","4">>),
      File(<<"f",".","m","p","4">>, m + 1, <<"v","i","d","e","o","/","m","p","4">>),
      File(<<"g",".","i","m","g">>, 500, <<"i","m","a","g","e","s","/","x">>) }

\* The FileList values of 0..n of the File objects `candidates`. The File
\* objects of one FileList are distinct objects.
RECURSIVE FileLists(_, _)
FileLists(candidates, n) ==
    IF n = 0 THEN {<<>>}
    ELSE LET shorter == FileLists(candidates, n - 1)
         IN  shorter \cup
             {l \in {Append(s, f) : s \in {t \in shorter : Len(t) = n - 1},
                                    f \in candidates} :
                \A i, j \in 1..Len(l) : i # j => l[i] # l[j]}

\* The FileList values handed to handleDrop and handleFileInput, per props.
BatchesOf == [p \in AllProps |-> FileLists(CandidatesOf(p), MaxBatch)]

VARIABLES
    props,          \* props maxSize and acceptedTypes
    maxFiles,       \* prop maxFiles
    files,          \* useState: files
    closureFiles,   \* the `files` captured by processFiles and removeFile
    isDragOver,     \* useState: isDragOver
    error,          \* useState: error
    timers,         \* number of pending () => setError(null) timeouts
    ownTimer,       \* position among them of the one scheduled with `error`
    objectURLs,     \* objectURLs[u]: calls of revokeObjectURL on URL u
    mounted,        \* the component is mounted
    task            \* the event-loop task that is running: what its
                    \* handler was given and did, until React commits

vars == <<props, maxFiles, files, closureFiles, isDragOver,
          error, timers, ownTimer, objectURLs, mounted, task>>

maxSize == props.maxSize
acceptedTypes == props.acceptedTypes
Candidates == CandidatesOf(props)
Batches == BatchesOf[props]

\* ----------------------------------------------------------- validateFile
\* The size test with >= for >: a file of exactly maxSize is refused.
IsTooLarge_Inclusive(file) == file.size >= maxSize

\* file.size > maxSize
IsTooLarge(file) == file.size > maxSize

\* The callback of acceptedTypes.some: does the rule `type` accept the file?
TypeMatches(type, file) ==
    LET fileType == file.type
        fileName == ToLowerCase(file.name)
    IN  IF StartsWith(type, <<".">>)
        THEN EndsWith(fileName, type)
        ELSE IF Includes(type, "*")
             THEN LET baseType == SplitFirst(type, "/")
                  IN  StartsWith(fileType, baseType)
             ELSE fileType = type

\* acceptedTypes.some(...) on the File objects of the model, computed once
\* per props.
SomeTypeMatches ==
    [p \in AllProps |->
        [file \in CandidatesOf(p) |->
            \E i \in 1..Len(p.acceptedTypes) :
               TypeMatches(p.acceptedTypes[i], file)]]

\* isValidType
IsValidType(file) == SomeTypeMatches[props][file]

\* validateFile(file): the error string, or null
validateFile(file) ==
    IF IsTooLarge(file)
    THEN TooLargeMsg(file.name, maxSize)
    ELSE IF ~IsValidType(file)
         THEN UnsupportedMsg(file.name)
         ELSE Null

\* ----------------------------------------------------------- processFiles
\* The capacity test with > for >=: one file too many is let through.
AtCapacity_Strict(newFiles) == Len(closureFiles) + Len(newFiles) > maxFiles

\* The capacity test without the files already accepted.
AtCapacity_BatchOnly(newFiles) == Len(newFiles) >= maxFiles

\* files.length + newFiles.length >= maxFiles
AtCapacity(newFiles) == Len(closureFiles) + Len(newFiles) >= maxFiles

\* The image test with the prefix "image", as the wildcard rule has it.
IsImage_NoSlash(file) == StartsWith(file.type, <<"i","m","a","g","e">>)

\* file.type.startsWith("image/")
IsImage(file) == StartsWith(file.type, ImagePrefix)

\* What one pass of the forEach callback left for a candidate.
Staged == [kind |-> "staged"]

\* A forEach callback that gives up the candidates staged so far when one
\* candidate is rejected by validateFile.
Visit_DropStaged(acc, file) ==
    LET validationError == validateFile(file)
    IN  IF validationError # Null
        THEN [acc EXCEPT !.errors = Append(@, validationError),
                         !.outcomes = Append(@, validationError),
                         !.newFiles = <<>>]
        ELSE IF AtCapacity(acc.newFiles)
             THEN [acc EXCEPT !.errors = Append(@, MaximumMsg(maxFiles)),
                              !.outcomes = Append(@, MaximumMsg(maxFiles))]
             ELSE IF IsImage(file)
                  THEN [acc EXCEPT
                          !.newFiles = Append(@, [file EXCEPT !.preview = Len(acc.urls) + 1]),
                          !.urls = Append(@, 0),
                          !.outcomes = Append(@, Staged)]
                  ELSE [acc EXCEPT !.newFiles = Append(@, file),
                                   !.outcomes = Append(@, Staged)]

\* A forEach callback that tests the capacity before it validates.
Visit_CapacityFirst(acc, file) ==
    IF AtCapacity(acc.newFiles)
    THEN [acc EXCEPT !.errors = Append(@, MaximumMsg(maxFiles)),
                     !.outcomes = Append(@, MaximumMsg(maxFiles))]
    ELSE LET validationError == validateFile(file)
         IN  IF validationError # Null
             THEN [acc EXCEPT !.errors = Append(@, validationError),
                              !.outcomes = Append(@, validationError)]
             ELSE IF IsImage(file)
                  THEN [acc EXCEPT
                          !.newFiles = Append(@, [file EXCEPT !.preview = Len(acc.urls) + 1]),
                          !.urls = Append(@, 0),
                          !.outcomes = Append(@, Staged)]
                  ELSE [acc EXCEPT !.newFiles = Append(@, file),
                                   !.outcomes = Append(@, Staged)]

\* The forEach callback: acc holds newFiles, errors, the object URLs created
\* so far and, per candidate seen, what happened to it.
Visit(acc, file) ==
    LET validationError == validateFile(file)
    IN  IF validationError # Null
        THEN [acc EXCEPT !.errors = Append(@, validationError),
                         !.outcomes = Append(@, validationError)]
        ELSE IF AtCapacity(acc.newFiles)
             THEN [acc EXCEPT !.errors = Append(@, MaximumMsg(maxFiles)),
                              !.outcomes = Append(@, MaximumMsg(maxFiles))]
             ELSE IF IsImage(file)
                  THEN [acc EXCEPT
                          !.newFiles = Append(@, [file EXCEPT !.preview = Len(acc.urls) + 1]),
                          !.urls = Append(@, 0),
                          !.outcomes = Append(@, Staged)]
                  ELSE [acc EXCEPT !.newFiles = Append(@, file),
                                   !.outcomes = Append(@, Staged)]

\* Array.from(fileList).forEach(...), from candidate i on
RECURSIVE ForEach(_, _, _)
ForEach(fileList, i, acc) ==
    IF i > Len(fileList) THEN acc
    ELSE ForEach(fileList, i + 1, Visit(acc, fileList[i]))

\* A message that is already shown is kept instead of being replaced.
ErrorAfter_KeepShown(errors) ==
    IF Len(errors) > 0 THEN (IF error # Null THEN error ELSE errors[1]) ELSE Null

\* setError with the last message of the call instead of the first.
ErrorAfter_Last(errors) == IF Len(errors) > 0 THEN errors[Len(errors)] ELSE Null

\* The value `error` is set to after the loop.
ErrorAfter(errors) == IF Len(errors) > 0 THEN errors[1] ELSE Null

\* onFilesChange called outside the `if (newFiles.length > 0)`.
NotifyAfter_Always(newFiles, updatedFiles) == <<updatedFiles>>

\* The arguments onFilesChange is called with after the loop.
NotifyAfter(newFiles, updatedFiles) ==
    IF Len(newFiles) > 0 THEN <<updatedFiles>> ELSE <<>>

NoTask ==
    [op |-> "idle", fileList |-> <<>>, index |-> 0,
     newFiles |-> <<>>, errors |-> <<>>, outcomes |-> <<>>,
     calls |-> <<>>, revokes |-> <<>>, threw |-> FALSE]

\* processFiles(fileList), called by the handler `op`
processFiles(op, fileList) ==
    LET r == ForEach(fileList, 1,
                     [newFiles |-> <<>>, errors |-> <<>>,
                      urls |-> objectURLs, outcomes |-> <<>>])
        updatedFiles == closureFiles \o r.newFiles
    IN  /\ Len(r.urls) <= MaxUrls
        /\ Len(r.errors) > 0 => timers < MaxTimers
        /\ error' = ErrorAfter(r.errors)
        /\ timers' = IF Len(r.errors) > 0 THEN timers + 1 ELSE timers
        /\ ownTimer' = IF Len(r.errors) > 0 THEN timers + 1 ELSE 0
        /\ files' = IF Len(r.newFiles) > 0 THEN updatedFiles ELSE files
        /\ objectURLs' = r.urls
        /\ task' = [NoTask EXCEPT
                      !.op = op, !.fileList = fileList,
                      !.newFiles = r.newFiles, !.errors = r.errors,
                      !.outcomes = r.outcomes,
                      !.calls = NotifyAfter(r.newFiles, updatedFiles)]
        /\ UNCHANGED <<props, maxFiles, closureFiles, mounted>>

\* JavaScript runs a task to completion, and React commits the state updates
\* of a discrete event before the next task starts: a handler runs only when
\* no other task is running.
Idle == task = NoTask
Ready == mounted /\ Idle

\* handleDrop, for the FileList e.dataTransfer.files
handleDrop(fileList) ==
    /\ Ready
    /\ isDragOver' = FALSE
    /\ IF Len(fileList) > 0
       THEN processFiles("handleDrop", fileList)
       ELSE /\ task' = [NoTask EXCEPT !.op = "handleDrop"]
            /\ UNCHANGED <<props, maxFiles, files, closureFiles, error, timers,
                           ownTimer, objectURLs, mounted>>

\* handleFileInput, for the FileList e.target.files
handleFileInput(fileList) ==
    /\ Ready
    /\ IF Len(fileList) > 0
       THEN processFiles("handleFileInput", fileList)
       ELSE /\ task' = [NoTask EXCEPT !.op = "handleFileInput"]
            /\ UNCHANGED <<props, maxFiles, files, closureFiles, error, timers,
                           ownTimer, objectURLs, mounted>>
    /\ UNCHANGED isDragOver

\* ------------------------------------------------------------- removeFile
\* fs.filter((_, i) => i in keep): the entries at the positions of `keep`
\* (counted from 1), in their order.
Filter(fs, keep) ==
    [k \in 1..Cardinality(keep) |->
        fs[CHOOSE i \in keep : Cardinality({j \in keep : j < i}) = k - 1]]

\* The filter with the index taken as counted from 1.
FilterOut_OneBased(fs, index) == Filter(fs, {i \in 1..Len(fs) : i # index})

\* files.filter((_, i) => i !== index), index counted from 0
FilterOut(fs, index) == Filter(fs, {i \in 1..Len(fs) : i - 1 # index})

\* files[index] is undefined: reading fileToRemove.preview throws a TypeError
IsUndefinedAt(fs, index) == index < 0 \/ index >= Len(fs)

\* removeFile without the call of URL.revokeObjectURL.
RevokesOf_None(fileToRemove) == <<>>

\* if (fileToRemove.preview) URL.revokeObjectURL(fileToRemove.preview)
RevokesOf(fileToRemove) ==
    IF fileToRemove.preview # Undefined THEN <<fileToRemove.preview>> ELSE <<>>

\* The object URL table after the calls of revokeObjectURL in `revokes`.
Revoked(urls, revokes) ==
    [u \in 1..Len(urls) |->
        urls[u] + Cardinality({k \in 1..Len(revokes) : revokes[k] = u})]

\* removeFile reading fileToRemove?.preview: nothing throws, and setFiles and
\* onFilesChange are reached for every index.
RemoveResult_NoThrow(fs, index) ==
    LET updatedFiles == FilterOut(fs, index)
    IN  [threw |-> FALSE, updatedFiles |-> updatedFiles,
         revokes |-> IF IsUndefinedAt(fs, index) THEN <<>>
                     ELSE RevokesOf(fs[index + 1]),
         calls |-> <<updatedFiles>>]

\* The body of removeFile on the captured `files`: whether it threw, and
\* the list it passed to setFiles and onFilesChange, and the URLs it revoked.
RemoveResult(fs, index) ==
    LET updatedFiles == FilterOut(fs, index)
    IN  IF IsUndefinedAt(fs, index)
        THEN [threw |-> TRUE, updatedFiles |-> fs, revokes |-> <<>>,
              calls |-> <<>>]
        ELSE [threw |-> FALSE, updatedFiles |-> updatedFiles,
              revokes |-> RevokesOf(fs[index + 1]),
              calls |-> <<updatedFiles>>]

\* A removeFile that also calls setError(null).
removeFile_ClearsError(index) ==
    /\ Ready
    /\ LET r == RemoveResult(closureFiles, index)
       IN  /\ objectURLs' = Revoked(objectURLs, r.revokes)
           /\ files' = IF r.threw THEN files ELSE r.updatedFiles
           /\ task' = [NoTask EXCEPT !.op = "removeFile", !.index = index,
                                     !.revokes = r.revokes, !.calls = r.calls,
                                     !.threw = r.threw]
    /\ error' = Null
    /\ UNCHANGED <<props, maxFiles, closureFiles, isDragOver, timers, ownTimer,
                   mounted>>

\* removeFile(index)
removeFile(index) ==
    /\ Ready
    /\ LET r == RemoveResult(closureFiles, index)
       IN  /\ objectURLs' = Revoked(objectURLs, r.revokes)
           /\ files' = IF r.threw THEN files ELSE r.updatedFiles
           /\ task' = [NoTask EXCEPT !.op = "removeFile", !.index = index,
                                     !.revokes = r.revokes, !.calls = r.calls,
                                     !.threw = r.threw]
    /\ UNCHANGED <<props, maxFiles, closureFiles, isDragOver, error, timers, ownTimer,
                   mounted>>

\* ---------------------------------------------------------- drag gestures
\* handleDragOver
handleDragOver ==
    /\ Ready
    /\ isDragOver' = TRUE
    /\ task' = [NoTask EXCEPT !.op = "handleDragOver"]
    /\ UNCHANGED <<props, maxFiles, files, closureFiles, error, timers, ownTimer,
                   objectURLs, mounted>>

\* handleDragLeave
handleDragLeave ==
    /\ Ready
    /\ isDragOver' = FALSE
    /\ task' = [NoTask EXCEPT !.op = "handleDragLeave"]
    /\ UNCHANGED <<props, maxFiles, files, closureFiles, error, timers, ownTimer,
                   objectURLs, mounted>>

\* ------------------------------------------------------ timer and React
\* A timeout callback that does not call setError(null).
TimerFires_NoClear ==
    /\ task = [op |-> "idle", fileList |-> <<>>, index |-> 0,
               newFiles |-> <<>>, errors |-> <<>>, outcomes |-> <<>>,
               calls |-> <<>>, revokes |-> <<>>, threw |-> FALSE]
    /\ timers > 0
    /\ timers' = timers - 1
    /\ ownTimer' = IF ownTimer = 0 THEN 0 ELSE ownTimer - 1
    /\ task' = [task EXCEPT !.op = "timer"]
    /\ UNCHANGED <<props, maxFiles, files, closureFiles, isDragOver, error,
                   objectURLs, mounted>>

\* The oldest pending timeout fires: () => setError(null). All delays are
\* 5000 ms, so timeouts fire in the order they were set; setState on an
\* unmounted component does nothing.
TimerFires ==
    /\ Idle
    /\ timers > 0
    /\ timers' = timers - 1
    /\ error' = IF mounted THEN Null ELSE error
    /\ ownTimer' = IF mounted \/ ownTimer = 0 THEN 0 ELSE ownTimer - 1
    /\ task' = [NoTask EXCEPT !.op = "timer"]
    /\ UNCHANGED <<props, maxFiles, files, closureFiles, isDragOver, objectURLs, mounted>>

\* A re-render that keeps the closures of the first render, as
\* useCallback with an empty dependency list would.
Commit_KeepClosure ==
    /\ ~Idle
    /\ task' = NoTask
    /\ UNCHANGED <<props, maxFiles, files, closureFiles, isDragOver, error, timers,
                   ownTimer, objectURLs, mounted>>

\* The task ends and React commits its state updates: the re-render makes,
\* by useCallback([files, ...]), new processFiles and removeFile closures
\* over the current `files`.
Commit ==
    /\ ~Idle
    /\ closureFiles' = IF mounted THEN files ELSE closureFiles
    /\ task' = NoTask
    /\ UNCHANGED <<props, maxFiles, files, isDragOver, error, timers, ownTimer,
                   objectURLs, mounted>>

\* The component is unmounted. It registers no effect, so nothing of its
\* own runs; pending timeouts stay pending.
Unmount ==
    /\ Ready
    /\ mounted' = FALSE
    /\ task' = [NoTask EXCEPT !.op = "unmount"]
    /\ UNCHANGED <<props, maxFiles, files, closureFiles, isDragOver, error, timers,
                   ownTimer, objectURLs>>

\* ------------------------------------------------------- the state machine
\* The state after the first render.
Mounted ==
    /\ files = <<>>
    /\ closureFiles = <<>>
    /\ isDragOver = FALSE
    /\ error = Null
    /\ timers = 0
    /\ ownTimer = 0
    /\ objectURLs = <<>>
    /\ mounted = TRUE
    /\ task = NoTask

Init ==
    /\ props = PageProps
    /\ maxFiles \in 1..MaxMaxFiles
    /\ Mounted

\* The widget mounted with the props of the scenario.
ScenarioInit ==
    /\ props = ScenarioProps
    /\ maxFiles = 2
    /\ Mounted

Next ==
    \/ \E fileList \in Batches : handleDrop(fileList)
    \/ \E fileList \in Batches : handleFileInput(fileList)
    \/ \E index \in -1..(MaxMaxFiles + 1) : removeFile(index)
    \/ handleDragOver
    \/ handleDragLeave
    \/ TimerFires
    \/ Commit
    \/ Unmount

Spec == Init /\ [][Next]_vars

\* The browser's event loop runs every queued task: a timeout whose delay
\* has elapsed fires although user events keep arriving, and React commits
\* after every handler.
FairSpec == Spec /\ SF_vars(TimerFires) /\ WF_vars(Commit)

ScenarioSpec == ScenarioInit /\ [][Next]_vars

\* ------------------------------------------------------------ the claims
\* The running task is a drop or a picker change that called processFiles;
\* closureFiles is then still the `files` the call started from.
RanProcessFiles ==
    /\ task.op \in {"handleDrop", "handleFileInput"}
    /\ Len(task.fileList) > 0

\* The candidates of the running task, by position in the FileList.
Positions == 1..Len(task.fileList)

\* Entry e of the list is the File object f (with or without a preview).
IsEntryOf(e, f) == e.name = f.name /\ e.size = f.size /\ e.type = f.type

\* C1: in every reachable state, after any sequence of processFiles and
\* removeFile calls from the empty widget with maxFiles >= 1, the number of
\* accepted files is at most maxFiles.
C1_CapacityInvariant == maxFiles >= 1 => Len(files) <= maxFiles

\* C1 witness: a call of processFiles filled the list up to maxFiles and
\* refused a further valid candidate of the same FileList.
C1_Witness ==
    /\ RanProcessFiles
    /\ Len(task.newFiles) > 0
    /\ Len(files) = maxFiles
    /\ \E i \in Positions : task.outcomes[i] = MaximumMsg(maxFiles)

\* C2: when the list already holds maxFiles files, processFiles of a
\* non-empty FileList whose candidates all pass validateFile stages nothing:
\* `files` is unchanged, error is "Maximum <maxFiles> files allowed.", no
\* object URL is created and onFilesChange is not called.
C2_FullListRejectsValidBatch ==
    ( /\ RanProcessFiles
      /\ Len(closureFiles) = maxFiles
      /\ \A i \in Positions : validateFile(task.fileList[i]) = Null )
    => /\ files = closureFiles
       /\ task.newFiles = <<>>
       /\ error = [kind |-> "Maximum", n |-> maxFiles]
       /\ task.calls = <<>>
       /\ \A u \in 1..Len(objectURLs) :
             \/ \E k \in 1..Len(closureFiles) : closureFiles[k].preview = u
             \/ objectURLs[u] > 0

\* C2 witness: a FileList of two valid candidates, one of them an image, was
\* submitted to a full list.
C2_Witness ==
    /\ RanProcessFiles
    /\ Len(closureFiles) = maxFiles
    /\ Len(task.fileList) = 2
    /\ \A i \in Positions : validateFile(task.fileList[i]) = Null
    /\ \E i \in Positions : IsImage(task.fileList[i])
    /\ error = MaximumMsg(maxFiles)

\* The type rules as C3 states them: a dot-extension rule against the end of
\* the lower-cased name, a wildcard "base/*" against the prefix "base/" of
\* the declared MIME type, any other rule against the whole MIME type.
RuleMatchesAsStated(rule, f) ==
    IF StartsWith(rule, <<".">>)
    THEN EndsWith(ToLowerCase(f.name), rule)
    ELSE IF EndsWith(rule, <<"/", "*">>)
         THEN StartsWith(f.type, SubSeq(rule, 1, Len(rule) - 1))
         ELSE f.type = rule

TypeOkAsStated(f) ==
    \E i \in 1..Len(acceptedTypes) : RuleMatchesAsStated(acceptedTypes[i], f)

\* C3: a candidate (that is not refused for its size) passes the type check
\* if and only if some rule matches it as stated above; a candidate no rule
\* matches gets the "not a supported file type" error and is never in
\* `files`.
C3_TypeRuleMatching ==
    /\ \A k \in 1..Len(files) : TypeOkAsStated(files[k])
    /\ RanProcessFiles =>
          \A i \in Positions :
             LET f == task.fileList[i]
             IN  f.size <= maxSize =>
                    (task.outcomes[i] = [kind |-> "UnsupportedType", name |-> f.name]
                        <=> ~TypeOkAsStated(f))

\* C4: a candidate larger than maxSize gets the "too large" error, whatever
\* its type, and is never in `files`; a FileList of such candidates only
\* leaves `files` unchanged; a candidate of exactly maxSize bytes does not
\* get the "too large" error.
C4_SizeRule ==
    /\ \A k \in 1..Len(files) : files[k].size <= maxSize
    /\ RanProcessFiles =>
          /\ \A i \in Positions :
                LET f == task.fileList[i]
                IN  /\ f.size > maxSize =>
                          /\ task.outcomes[i].kind = "TooLarge"
                          /\ task.outcomes[i].name = f.name
                          /\ \A k \in 1..Len(task.newFiles) :
                                ~IsEntryOf(task.newFiles[k], f)
                    /\ f.size = maxSize => task.outcomes[i].kind # "TooLarge"
          /\ (\A i \in Positions : task.fileList[i].size > maxSize)
                => files = closureFiles

\* C4 witness: one FileList held a candidate that is both too large and of
\* an unsupported type, and a candidate of exactly maxSize bytes, which was
\* staged.
C4_Witness ==
    /\ RanProcessFiles
    /\ \E i, j \in Positions :
          /\ task.fileList[i].size > maxSize
          /\ ~IsValidType(task.fileList[i])
          /\ task.outcomes[i].kind = "TooLarge"
          /\ task.fileList[j].size = maxSize
          /\ task.outcomes[j] = Staged
          /\ \E k \in 1..Len(files) : IsEntryOf(files[k], task.fileList[j])

\* C5: onFilesChange is called exactly once, with the whole updated list,
\* by each processFiles or removeFile call that changes `files`, and is not
\* called by a processFiles call that refuses every candidate.
C5_NotificationContract ==
    /\ (task.op \in {"handleDrop", "handleFileInput", "removeFile"}
          /\ files # closureFiles)
       => task.calls = <<files>>
    /\ (RanProcessFiles /\ \A i \in Positions : task.outcomes[i] # Staged)
       => task.calls = <<>>

\* C5 witness: a FileList with a staged and a refused candidate was added
\* to a list that was not empty, and onFilesChange got the whole list.
C5_Witness ==
    /\ RanProcessFiles
    /\ Len(closureFiles) > 0
    /\ \E i, j \in Positions :
          task.outcomes[i] = Staged /\ task.outcomes[j] # Staged
    /\ Len(files) = Len(closureFiles) + 1
    /\ task.calls = <<files>>

\* C6: a timeout set by an earlier processFiles call, firing while a later
\* call's error is shown (that call's own timeout is still behind it in the
\* queue), leaves the later error in place.
C6_LatestErrorWins ==
    [][(TimerFires /\ mounted /\ ownTimer > 1) => error' = error]_vars

\* The object URLs created and not yet revoked.
Outstanding == {u \in 1..Len(objectURLs) : objectURLs[u] = 0}

\* C7: once the widget is unmounted no created object URL is left
\* unrevoked, and none has been revoked more than once.
C7_TeardownReleasesHandles ==
    ~mounted => \A u \in 1..Len(objectURLs) : objectURLs[u] = 1

\* C8: removeFile(i) with 0 <= i < files.length shortens `files` by exactly
\* one, removes the entry at i, keeps the others in order (those after i
\* move down by one), and revokes the object URL of the removed entry
\* exactly once if it has one, and no other URL.
C8_RemoveEntry ==
    ( /\ task.op = "removeFile"
      /\ 0 <= task.index
      /\ task.index < Len(closureFiles) )
    => LET i == task.index + 1
           removed == closureFiles[i]
       IN  /\ ~task.threw
           /\ Len(files) = Len(closureFiles) - 1
           /\ \A k \in 1..Len(files) :
                 files[k] = IF k < i THEN closureFiles[k] ELSE closureFiles[k + 1]
           /\ IF removed.preview # Undefined
              THEN /\ task.revokes = <<removed.preview>>
                   /\ objectURLs[removed.preview] = 1
              ELSE task.revokes = <<>>
           /\ \A k \in 1..Len(files) :
                 files[k].preview # Undefined => files[k].preview \in Outstanding

\* C8 witness: the first of two entries that both have a preview was
\* removed.
C8_Witness ==
    /\ task.op = "removeFile"
    /\ task.index = 0
    /\ Len(closureFiles) = 2
    /\ closureFiles[1].preview # Undefined
    /\ closureFiles[2].preview # Undefined
    /\ files = <<closureFiles[2]>>
    /\ task.revokes = <<closureFiles[1].preview>>

\* C9: removeFile(index) with index < 0 or index >= files.length changes
\* nothing: `files` is unchanged, no object URL is revoked and onFilesChange
\* is not called.
C9_RemoveOutOfRange ==
    ( /\ task.op = "removeFile"
      /\ (task.index < 0 \/ task.index >= Len(closureFiles)) )
    => /\ files = closureFiles
       /\ task.revokes = <<>>
       /\ task.calls = <<>>
       /\ \A k \in 1..Len(files) :
             files[k].preview # Undefined => files[k].preview \in Outstanding

\* C9 witness: removeFile was called with index = files.length on a list of
\* two entries, one with a preview, and ended by throwing.
C9_Witness ==
    /\ task.op = "removeFile"
    /\ Len(closureFiles) = 2
    /\ task.index = 2
    /\ \E k \in 1..2 : closureFiles[k].preview # Undefined
    /\ task.threw
    /\ files = closureFiles

\* C10: after processFiles, error is the message of the first refused
\* candidate in FileList order if any candidate was refused, and null if
\* none was.
C10_FirstRejectionShown ==
    RanProcessFiles =>
       LET refused == {i \in Positions : task.outcomes[i] # Staged}
       IN  IF refused = {}
           THEN error = Null
           ELSE \E i \in refused :
                   /\ \A j \in refused : i <= j
                   /\ error = task.outcomes[i]

\* C10 witness: two candidates of one FileList were refused with different
\* messages and error is the first one's.
C10_Witness ==
    /\ RanProcessFiles
    /\ Len(task.fileList) = 2
    /\ task.outcomes[1] # Staged
    /\ task.outcomes[2] # Staged
    /\ task.outcomes[1] # task.outcomes[2]
    /\ error = task.outcomes[1]

\* C11: an error shown by the mounted widget is eventually cleared: the
\* timeout set with it (or an earlier one) fires and sets error to null.
C11_ErrorEventuallyCleared ==
    (mounted /\ error # Null) ~> (error = Null \/ ~mounted)

\* C11 witness: the only pending timeout fired and cleared the error of the
\* call that set it.
C11_Witness ==
    /\ task.op = "timer"
    /\ mounted
    /\ timers = 0
    /\ error = Null

\* C12: every entry of `files` that has a preview has a MIME type that
\* starts with "image/", and processFiles creates an object URL for a staged
\* candidate exactly when its MIME type starts with "image/" (a URL of its
\* own, not yet revoked).
C12_PreviewInvariant ==
    /\ \A k \in 1..Len(files) :
          files[k].preview # Undefined =>
             StartsWith(files[k].type, <<"i","m","a","g","e","/">>)
    /\ RanProcessFiles =>
          \A k \in 1..Len(task.newFiles) :
             LET e == task.newFiles[k]
             IN  IF StartsWith(e.type, <<"i","m","a","g","e","/">>)
                 THEN /\ e.preview \in 1..Len(objectURLs)
                      /\ objectURLs[e.preview] = 0
                      /\ \A j \in 1..Len(files) :
                            files[j].preview = e.preview
                               => j = Len(closureFiles) + k
                 ELSE e.preview = Undefined

\* C12 witness: one FileList staged an image, which got a preview, and a
\* file whose MIME type is "images/x", which got none.
C12_Witness ==
    /\ RanProcessFiles
    /\ Len(task.newFiles) = 2
    /\ \E j, k \in 1..2 :
          /\ task.newFiles[j].preview # Undefined
          /\ task.newFiles[k].preview = Undefined
          /\ StartsWith(task.newFiles[k].type, <<"i","m","a","g","e">>)
    /\ files = closureFiles \o task.newFiles

\* The names of the entries of a list, in order.
Names(fs) == [k \in 1..Len(fs) |-> fs[k].name]

\* The number of candidates staged before position i by the running call.
StagedBefore(i) == Cardinality({j \in 1..(i - 1) : task.outcomes[j] = Staged})

\* C13: a candidate that passes validateFile while there is room is staged
\* whatever happened to the other candidates of the FileList. With
\* maxFiles = 2, maxSize = 1000 and acceptedTypes = ["image/*"]: on the empty
\* list, [imgA, docB] leaves files = [imgA] and the error "docB is not a
\* supported file type"; then [imgC, imgD] leaves files = [imgA, imgC], imgD
\* rejected with "Maximum 2 files allowed." and that message as the error.
C13_PartialAcceptance ==
    RanProcessFiles =>
       /\ \A i \in Positions :
             ( /\ validateFile(task.fileList[i]) = Null
               /\ Len(closureFiles) + StagedBefore(i) < maxFiles )
             => task.outcomes[i] = Staged
       /\ ( /\ closureFiles = <<>>
            /\ Names(task.fileList) = << <<"i","m","g","A">>, <<"d","o","c","B">> >> )
          => /\ Names(files) = << <<"i","m","g","A">> >>
             /\ task.outcomes = <<Staged, UnsupportedMsg(<<"d","o","c","B">>)>>
             /\ error = UnsupportedMsg(<<"d","o","c","B">>)
       /\ ( /\ Names(closureFiles) = << <<"i","m","g","A">> >>
            /\ Names(task.fileList) = << <<"i","m","g","C">>, <<"i","m","g","D">> >> )
          => /\ Names(files) = << <<"i","m","g","A">>, <<"i","m","g","C">> >>
             /\ task.outcomes = <<Staged, MaximumMsg(2)>>
             /\ error = MaximumMsg(2)

\* C13 witness: the second FileList of the scenario was processed on the
\* list [imgA].
C13_Witness ==
    /\ RanProcessFiles
    /\ props = ScenarioProps
    /\ maxFiles = 2
    /\ Names(closureFiles) = << <<"i","m","g","A">> >>
    /\ Names(task.fileList) = << <<"i","m","g","C">>, <<"i","m","g","D">> >>
    /\ Names(files) = << <<"i","m","g","A">>, <<"i","m","g","C">> >>
    /\ error = MaximumMsg(2)

\* The first message validateFile gives for a FileList: it depends on the
\* FileList and the props only.
RECURSIVE FirstRejection(_)
FirstRejection(fileList) ==
    IF Len(fileList) = 0 THEN Null
    ELSE IF validateFile(Head(fileList)) # Null
         THEN validateFile(Head(fileList))
         ELSE FirstRejection(Tail(fileList))

\* No candidate of the running call passes validateFile.
OnlyInvalid == \A i \in Positions : validateFile(task.fileList[i]) # Null

\* C14: on the empty list, a FileList none of whose candidates passes
\* validateFile leaves the list empty, calls onFilesChange not at all and
\* sets the error to the first rejection message of that FileList, whatever
\* was submitted or shown before: submitting it again gives the same list
\* and the same error.
C14_RejectionIdempotent ==
    (RanProcessFiles /\ closureFiles = <<>> /\ OnlyInvalid) =>
       /\ files = <<>>
       /\ error = FirstRejection(task.fileList)
       /\ error # Null
       /\ task.calls = <<>>

\* C14 witness: a FileList of two invalid candidates with different
\* messages was processed on the empty list while the timeout of an earlier
\* rejection was still pending.
C14_Witness ==
    /\ RanProcessFiles
    /\ closureFiles = <<>>
    /\ files = <<>>
    /\ OnlyInvalid
    /\ Len(task.fileList) = 2
    /\ task.errors[1] # task.errors[2]
    /\ error = task.errors[1]
    /\ timers = 2
    /\ ownTimer = 2

\* The candidates a call staged, in the order of its FileList.
RECURSIVE Pick(_, _, _)
Pick(fileList, outcomes, i) ==
    IF i > Len(fileList) THEN <<>>
    ELSE (IF outcomes[i] = Staged THEN <<fileList[i]>> ELSE <<>>)
         \o Pick(fileList, outcomes, i + 1)

\* List fs continues list gs: gs is a prefix of fs.
Extends(fs, gs) ==
    /\ Len(fs) >= Len(gs)
    /\ \A k \in 1..Len(gs) : fs[k] = gs[k]

\* C15: whatever the order of drops, picker changes, removals, drag
\* gestures, timeouts and re-renders, a handleDrop or handleFileInput call
\* leaves `files` equal to `files` before the call followed by the
\* candidates it staged, in the order of the FileList; and a step after
\* which `files` does not continue the earlier `files` is a removeFile call.
C15_AppendOnly ==
    [][ /\ (Idle /\ task'.op \in {"handleDrop", "handleFileInput"}) =>
              /\ files' = files \o task'.newFiles
              /\ Len(task'.newFiles) = Len(Pick(task'.fileList, task'.outcomes, 1))
              /\ \A k \in 1..Len(task'.newFiles) :
                    IsEntryOf(task'.newFiles[k],
                              Pick(task'.fileList, task'.outcomes, 1)[k])
        /\ ~Extends(files', files) => (Idle /\ task'.op = "removeFile")
      ]_vars

\* C15 witness: a call on a list of one entry, made after a re-render,
\* staged one candidate and rejected another; the entry is still first.
C15_Witness ==
    /\ RanProcessFiles
    /\ Len(closureFiles) = 1
    /\ Len(task.newFiles) = 1
    /\ Len(task.errors) = 1
    /\ Len(files) = 2
    /\ files[1] = closureFiles[1]
    /\ files[2] = task.newFiles[1]

\* C16: within one processFiles call, every candidate that comes after a
\* candidate rejected with "Maximum n files allowed." is rejected with that
\* same message, whether or not it passes validateFile.
C16_StopAtCapacity ==
    RanProcessFiles =>
       \A i, j \in Positions :
          (i < j /\ task.outcomes[i] = MaximumMsg(maxFiles))
          => task.outcomes[j] = MaximumMsg(maxFiles)

\* C16, amended: within one processFiles call, no candidate that comes
\* after a candidate rejected with "Maximum n files allowed." is staged; it
\* is rejected with the message of validateFile if it fails validateFile,
\* and with "Maximum n files allowed." otherwise.
C16_NoStagingAfterCapacity ==
    RanProcessFiles =>
       \A i, j \in Positions :
          (i < j /\ task.outcomes[i] = MaximumMsg(maxFiles))
          => /\ task.outcomes[j] # Staged
             /\ task.outcomes[j] =
                   IF validateFile(task.fileList[j]) # Null
                   THEN validateFile(task.fileList[j])
                   ELSE MaximumMsg(maxFiles)

\* C16 witness: on a full list the first candidate was rejected for the
\* capacity and the second, which fails validateFile, with its own message.
C16_Witness ==
    /\ RanProcessFiles
    /\ Len(closureFiles) = maxFiles
    /\ Len(task.fileList) = 2
    /\ task.outcomes[1] = MaximumMsg(maxFiles)
    /\ task.outcomes[2] = validateFile(task.fileList[2])
    /\ task.outcomes[2] # Null
    /\ files = closureFiles

\* The object URLs held as preview by the entries of a list.
HeldBy(fs) == {fs[k].preview : k \in {j \in 1..Len(fs) : fs[j].preview # Undefined}}

\* C17: in every reachable state the object URLs created and not revoked
\* are exactly the previews of the entries of `files`, each the preview of
\* one entry only (so no URL was created for a candidate that was rejected:
\* it would be unrevoked and held by no entry), and no URL has been revoked
\* more than once.
C17_NoHandleLeak ==
    /\ Outstanding = HeldBy(files)
    /\ \A j, k \in 1..Len(files) :
          (j # k /\ files[j].preview # Undefined)
          => files[j].preview # files[k].preview
    /\ \A u \in 1..Len(objectURLs) : objectURLs[u] \in {0, 1}
    /\ RanProcessFiles =>
          Cardinality(HeldBy(task.newFiles)) =
             Cardinality({i \in Positions : /\ task.outcomes[i] = Staged
                                            /\ IsImage(task.fileList[i])})

\* C17 witness: of two images with previews the first was removed and its
\* URL revoked; the URL of the other is the only one outstanding.
C17_Witness ==
    /\ task.op = "removeFile"
    /\ task.revokes = <<1>>
    /\ objectURLs = <<1, 0>>
    /\ Len(files) = 1
    /\ files[1].preview = 2

\* C18: in every reachable state every entry of `files` is at most maxSize
\* bytes long and is matched by some rule of acceptedTypes, the rules
\* matching as C3 states them.
C18_AcceptedEntriesValid ==
    \A k \in 1..Len(files) :
       /\ files[k].size <= maxSize
       /\ TypeOkAsStated(files[k])

\* C19: a removeFile call leaves `error` and the pending timeouts as they
\* are; handleDragOver and handleDragLeave set isDragOver and leave `files`,
\* `error`, the pending timeouts and the object URLs as they are, and do not
\* call onFilesChange; a timeout that fires leaves `files`, isDragOver and
\* the object URLs as they are and does not call onFilesChange: of the
\* widget's state it changes `error` only.
C19_FrameConditions ==
    [][ /\ (Idle /\ task'.op = "removeFile") =>
              /\ error' = error
              /\ timers' = timers
              /\ ownTimer' = ownTimer
              /\ isDragOver' = isDragOver
        /\ (Idle /\ task'.op \in {"handleDragOver", "handleDragLeave"}) =>
              /\ isDragOver' = (task'.op = "handleDragOver")
              /\ files' = files
              /\ error' = error
              /\ timers' = timers
              /\ ownTimer' = ownTimer
              /\ objectURLs' = objectURLs
              /\ task'.calls = <<>>
              /\ task'.revokes = <<>>
        /\ (Idle /\ task'.op = "timer") =>
              /\ files' = files
              /\ isDragOver' = isDragOver
              /\ objectURLs' = objectURLs
              /\ timers' = timers - 1
              /\ task'.calls = <<>>
              /\ task'.revokes = <<>>
      ]_vars

\* C19 witness: an entry was removed while an error was shown and its
\* timeout pending; the error is still shown and the timeout still pending.
C19_Witness ==
    /\ task.op = "removeFile"
    /\ ~task.threw
    /\ Len(task.calls) = 1
    /\ error # Null
    /\ timers = 1
    /\ ownTimer = 1

====
